---- MODULE Spec2Model ----
(***************************************************************************)
(* Model of the batch scheduler of src/main.py: ProcessingThread (the      *)
(* coordinator, a QThread), ImageWorker (QRunnable units run by a          *)
(* QThreadPool) and the slots _on_worker_started/_finished/_error.         *)
(*                                                                         *)
(* Threads of control:                                                     *)
(*   - the coordinator thread executes ProcessingThread.run;               *)
(*   - up to MaxThreadCount pool threads execute ImageWorker.run;          *)
(*   - the main (GUI) thread owns the ProcessingThread object, so the      *)
(*     worker signals, emitted in pool threads, are queued connections:    *)
(*     they are posted to the main thread's event queue (FIFO) and the     *)
(*     slots run there, one at a time.  stop() is called by the shell on   *)
(*     the main thread, between two slots.                                 *)
(*                                                                         *)
(* _start_next_worker is executed by the coordinator (initial dispatch)    *)
(* and by the main thread (slots) without any lock; it is modelled in the  *)
(* three steps whose interleaving matters: the emptiness/stop check        *)
(* (line 199), the blocking get with the read of self.queued (202-203),    *)
(* and the write of self.queued with the start of the worker (203-215).    *)
(***************************************************************************)
EXTENDS Integers, Sequences, FiniteSets, TLC

\* Largest directory of a run that the shell may cancel (specification Spec).
MaxFiles == 3

\* Largest directory of a run that is never cancelled (specification
\* PoolSpec); it holds more files than the pool has threads.
MaxPoolFiles == 6

\* Largest number of signal deliveries posted to the main thread and not yet
\* made: a worker that would post one more waits for the event loop.
MaxPending == 2

\* Largest number of files of one run whose unit of work raises.
MaxRaise == 2

\* QThreadPool.setMaxThreadCount(5) and range(min(5, self.queued)).
MaxThreadCount == 5

Files == 1..MaxPoolFiles

\* Outcome of get_file_list on a directory that cannot be read.
Unreadable == 0 - 1

VARIABLES
    input_dir,       \* what get_file_list finds: Unreadable or a file count
    cpc,             \* position of the coordinator thread in run()
    total_files,     \* len(file_list)
    file_queue,      \* self.file_queue
    queued,          \* self.queued
    processing,      \* self.processing
    processed,       \* self.processed
    failed,          \* self.failed
    active_workers,  \* keys of self.active_workers
    stop_event,      \* self.stop_event
    iter,            \* iterations left of the initial dispatch loop
    c_file,          \* coordinator's local file_path in _start_next_worker
    c_q,             \* coordinator's read of self.queued for "-= 1"
    mpc,             \* position of the main thread
    m_file,          \* main thread's local file_path in _start_next_worker
    m_q,             \* main thread's read of self.queued for "-= 1"
    events,          \* queued signal deliveries posted to the main thread
    connected,       \* files whose worker signals are connected to the slots
    wstate,          \* per file: state of its ImageWorker
    lastProgress,    \* last value emitted on progress_updated (-1: none)
    finished_count,  \* emissions of processing_finished
    fatal_count,     \* emissions of error_occurred by run()'s except clause
    final_stats,     \* the final statistics snapshot has been emitted
    rec,             \* per file: terminal transition recorded by a slot
    err_events,      \* per file: error_occurred emissions naming the file
    stop_at,         \* whether stop() was called before the polling loop was left
    config,          \* what the accessors of self.config return
    fail_steps,      \* steps of the unit of work that may raise in this run
    processor_chain, \* self.processor_chain: the components, in insertion order
    ops,             \* per file: the steps of ImageWorker.run that returned
    reported,        \* stats_updated was emitted since the last file transition
    start_config     \* the configuration when the ProcessingThread was created

vars == <<input_dir, cpc, total_files, file_queue, queued, processing,
          processed, failed, active_workers, stop_event, iter, c_file, c_q,
          mpc, m_file, m_q, events, connected, wstate, lastProgress,
          finished_count, fatal_count, final_stats, rec, err_events,
          stop_at, config, fail_steps, processor_chain, ops, reported,
          start_config>>

envVars == <<input_dir, config, fail_steps, start_config>>
setupVars == <<total_files, processor_chain>>
unitVars == <<wstate, ops>>
coordVars == <<cpc, total_files, iter, c_file, c_q, lastProgress,
               finished_count, fatal_count, final_stats>>
mainVars == <<mpc, m_file, m_q, rec, err_events>>
stopVars == <<stop_event, stop_at>>
counterVars == <<processing, processed, failed>>

Min(a, b) == IF a < b THEN a ELSE b

(***************************************************************************)
(* The configuration and the processor chain.  A layout name is the        *)
(* sequence of its words: 'watermark_left_logo' is                         *)
(* <<"watermark", "left", "logo">>; a layout that is the empty string or   *)
(* None is <<>>.                                                           *)
(***************************************************************************)

\* layout_items_dict: the registered layouts and their processors.
layout_items_dict ==
    [l \in {<<"watermark">>, <<"watermark", "left", "logo">>,
             <<"watermark", "right", "logo">>, <<"square">>, <<"simple">>} |->
        CASE l = <<"watermark">> -> "WATERMARK_PROCESSOR"
          [] l = <<"watermark", "left", "logo">> -> "WATERMARK_LEFT_LOGO_PROCESSOR"
          [] l = <<"watermark", "right", "logo">> -> "WATERMARK_RIGHT_LOGO_PROCESSOR"
          [] l = <<"square">> -> "SQUARE_PROCESSOR"
          [] l = <<"simple">> -> "SIMPLE_PROCESSOR"]

\* The values config.get_layout_type() may return: the registered layouts,
\* two names that are not registered and the empty/absent layout.
LayoutTypes ==
    (DOMAIN layout_items_dict) \cup {<<"custom">>, <<"my", "watermark">>, <<>>}

\* The output quality of the runs whose quality is not varied at the start.
DefaultQuality == 90

\* The values the shell may set the output quality to.
Qualities == {DefaultQuality, 60}

\* What the accessors of the configuration may return when a run starts.
Configs ==
    [layout : LayoutTypes, shadow : BOOLEAN, margin : BOOLEAN,
     padding : BOOLEAN, quality : {DefaultQuality}, focal : {FALSE}]

\* The configuration of the runs whose configuration is not varied.
DefaultConfig ==
    [layout |-> <<"watermark">>, shadow |-> TRUE, margin |-> TRUE,
     padding |-> FALSE, quality |-> DefaultQuality, focal |-> FALSE]

\* `layout_type` used as a condition: false for None and for ''.
Truthy(l) == Len(l) > 0

\* 'watermark' in layout_type, 'square' != layout_type
Contains(l, w) == \E i \in 1..Len(l) : l[i] = w

\* Lines 124-137: the components run() adds to the chain, in order.
BuildChain(chain, cfg) ==
    LET l == cfg.layout
        c1 == IF cfg.shadow /\ Truthy(l) /\ <<"square">> # l
                THEN Append(chain, "SHADOW_PROCESSOR") ELSE chain
        c2 == IF Truthy(l) /\ l \in DOMAIN layout_items_dict
                THEN Append(c1, layout_items_dict[l])
                ELSE Append(c1, "SIMPLE_PROCESSOR")
        c3 == IF cfg.margin /\ Truthy(l) /\ Contains(l, "watermark")
                THEN Append(c2, "MARGIN_PROCESSOR") ELSE c2
        c4 == IF cfg.padding /\ Truthy(l) /\ <<"square">> # l
                THEN Append(c3, "PADDING_TO_ORIGINAL_RATIO_PROCESSOR") ELSE c3
    IN  c4

(***************************************************************************)
(* The unit of work of ImageWorker.run.  A path is the sequence of its     *)
(* components.                                                             *)
(***************************************************************************)

\* The path get_file_list gives for file f of the input directory.
SourcePath(f) == <<"input_dir", f>>

\* Path.name: the last component.
BaseName(path) == path[Len(path)]

\* Mutation of TargetPath: the result is written over the source file.
TargetPathIsSource(path) == path

\* Line 69: Path(self.output_dir).joinpath(self.source_path.name)
TargetPath(path) == <<"output_dir", BaseName(path)>>

\* Mutation of UnitOfWork: the container is saved before the chain runs.
UnitOfWorkSavesFirst(path, cfg, chain) ==
    << <<"open", path>>, <<"save", TargetPath(path), cfg.quality>>,
       <<"process", path, cfg.focal, chain>>, <<"close", path>> >>

\* Lines 62-71: the steps of the unit of work, in the order they are
\* executed, each with the path it acts on.  The processing step carries
\* what use_equivalent_focal_length() returned (line 63) and the chain it
\* runs (line 66); the save carries what get_quality() returned (line 70).
UnitOfWork(path, cfg, chain) ==
    << <<"open", path>>, <<"process", path, cfg.focal, chain>>,
       <<"save", TargetPath(path), cfg.quality>>, <<"close", path>> >>

UnitSteps == {"open", "process", "save", "close"}

\* Mutation of WorkerChain: each worker is given a chain of its own, new
\* and empty.
WorkerChainFresh(chain) == <<>>

\* Line 205: ImageWorker(..., self.processor_chain, ...): the worker holds a
\* reference to the chain of the ProcessingThread, so what it runs is that
\* chain as it is when the worker processes.
WorkerChain(chain) == chain

\* The steps that returned when step `s` raises: the ones before it.
StepsBefore(path, s, cfg, chain) ==
    LET u == UnitOfWork(path, cfg, chain)
        i == CHOOSE k \in 1..Len(u) : u[k][1] = s
    IN  SubSeq(u, 1, i - 1)

\* get_file_list(input_dir): the enumerated files, in order.
FileList(n) == [i \in 1..n |-> i]

InFlight == {f \in Files : wstate[f] \in {"Pooled", "Running"}}
Terminal == {f \in Files : wstate[f] \in {"Done", "Raised"}}
Dispatched == InFlight \cup Terminal

\* The coordinator has not yet left the polling loop of run().
LoopNotLeft == cpc \in {"start", "dispatch", "snw_get", "snw_start", "loop"}

\* The state after ProcessingThread.__init__, for a directory drawn from
\* `dirs`.
InitWith(dirs, configs, steps) ==
    /\ input_dir \in dirs
    /\ config \in configs
    /\ start_config = config
    /\ fail_steps = steps
    /\ processor_chain = <<>>
    /\ ops = [f \in Files |-> <<>>]
    /\ reported = TRUE
    /\ cpc = "start"
    /\ total_files = 0
    /\ file_queue = <<>>
    /\ queued = 0
    /\ processing = 0
    /\ processed = 0
    /\ failed = 0
    /\ active_workers = {}
    /\ stop_event = FALSE
    /\ iter = 0
    /\ c_file = 0
    /\ c_q = 0
    /\ mpc = "idle"
    /\ m_file = 0
    /\ m_q = 0
    /\ events = <<>>
    /\ connected = {}
    /\ wstate = [f \in Files |-> "Absent"]
    /\ lastProgress = 0 - 1
    /\ finished_count = 0
    /\ fatal_count = 0
    /\ final_stats = FALSE
    /\ rec = [f \in Files |-> "None"]
    /\ err_events = [f \in Files |-> 0]
    /\ stop_at = "never"

\* Where the failing step of a unit of work is not varied, it is the chain
\* that raises.
Init ==
    InitWith({Unreadable} \cup (0..MaxFiles), {DefaultConfig}, {"process"})

InitPool ==
    InitWith({Unreadable, 0} \cup ((MaxThreadCount + 1)..MaxPoolFiles),
             {DefaultConfig}, {"process"})

\* Largest directory of the runs whose configuration is varied.
MaxChainFiles == 2

InitChain ==
    InitWith({Unreadable} \cup (0..MaxChainFiles), Configs, {"process"})

\* Largest directory of the runs in which any step of a unit of work may
\* raise.
MaxUnitFiles == 2

InitUnit ==
    InitWith({Unreadable} \cup (0..MaxUnitFiles), {DefaultConfig}, UnitSteps)

\* Largest directory of the runs during which the shell changes settings.
MaxShellFiles == 2

InitShell ==
    InitWith({Unreadable} \cup (0..MaxShellFiles), {DefaultConfig},
             {"process"})

(***************************************************************************)
(* Pure pieces of ProcessingThread.run                                     *)
(***************************************************************************)

\* Mutation of InitialWorkers: one worker per queued file, whatever the pool.
InitialWorkersUnbounded(q) == q

\* range(min(5, self.queued)): iterations of the initial dispatch loop.
InitialWorkers(q) == Min(MaxThreadCount, q)

\* Mutation of MayDispatch: the guard forgets stop_event.
MayDispatchIgnoringStop(q, stop) == Len(q) > 0

\* not (self.file_queue.empty() or self.stop_event): the guard of
\* _start_next_worker.
MayDispatch(q, stop) == Len(q) > 0 /\ ~stop

\* Mutation of QueueAfterGet: the file is read and left in the queue.
QueueAfterPeek(q) == q

\* self.file_queue.get(): the queue once its first file is removed.
QueueAfterGet(q) == Tail(q)

\* while self.processing > 0 or not self.file_queue.empty()
LoopCondition(p, q) == p > 0 \/ Len(q) > 0

\* int(((processed + failed) / total_files) * 100).  The float expression
\* truncates to the integer quotient for every total below 50.
PollProgress(p, f, t) == ((p + f) * 100) \div t

\* Mutation of FinalProgress: 100 whatever the counters.
FinalProgressAlways(p, f, t) == 100

\* 100 if self.processed + self.failed == total_files else 0
FinalProgress(p, f, t) == IF p + f = t THEN 100 ELSE 0

\* Mutation of EmitsFinished: processing_finished also after a cancel.
EmitsFinishedAlways(stop) == TRUE

\* if not self.stop_event: processing_finished.emit()
EmitsFinished(stop) == ~stop

\* stats_updated.emit(queued, processing, processed, rate): the counters of
\* a snapshot (the rate is a float of wall-clock time and is left out).
Snapshot(q, p, c) == [queued |-> q, processing |-> p, processed |-> c]

(***************************************************************************)
(* ImageWorker started on the pool: _start_next_worker, lines 203-215      *)
(***************************************************************************)
StartWorker(f, q) ==
    /\ queued' = q - 1
    /\ connected' = connected \cup {f}
    /\ active_workers' = active_workers \cup {f}
    /\ wstate' = [wstate EXCEPT ![f] = "Pooled"]
    /\ ops' = ops
    /\ reported' = FALSE

(***************************************************************************)
(* The coordinator thread: ProcessingThread.run                            *)
(***************************************************************************)

\* Mutation of RunSetupFails: run() goes on to line 186 after the except
\* clause and emits processing_finished as well.
RunSetupFailsAndFinishes ==
    /\ cpc = "start"
    /\ input_dir = Unreadable
    /\ cpc' = "end"
    /\ fatal_count' = fatal_count + 1
    /\ finished_count' = IF EmitsFinished(stop_event) THEN finished_count + 1
                                                      ELSE finished_count
    /\ UNCHANGED <<envVars, reported, setupVars, file_queue, queued,
                   active_workers, iter, c_file, c_q, events, connected,
                   unitVars, lastProgress, final_stats>>
    /\ UNCHANGED <<mainVars, stopVars, counterVars>>

\* get_file_list raises: the except clause emits error_occurred once.
RunSetupFails ==
    /\ cpc = "start"
    /\ input_dir = Unreadable
    /\ cpc' = "end"
    /\ fatal_count' = fatal_count + 1
    /\ UNCHANGED <<envVars, reported, setupVars, file_queue, queued,
                   active_workers, iter, c_file, c_q, events, connected,
                   unitVars, lastProgress, finished_count, final_stats>>
    /\ UNCHANGED <<mainVars, stopVars, counterVars>>

\* Mutation of RunEmpty: run() does not return at line 121 and goes through
\* the chain construction and the final emissions of lines 180-187.
RunEmptyFallsThrough ==
    /\ cpc = "start"
    /\ input_dir = 0
    /\ processor_chain' = BuildChain(processor_chain, config)
    /\ total_files' = total_files
    /\ lastProgress' = FinalProgress(processed, failed, 0)
    /\ final_stats' = TRUE
    /\ finished_count' = finished_count + 1
    /\ cpc' = "end"
    /\ UNCHANGED <<envVars, reported, file_queue, queued, active_workers,
                   iter, c_file, c_q, events, connected, unitVars,
                   fatal_count>>
    /\ UNCHANGED <<mainVars, stopVars, counterVars>>

\* total_files == 0: processing_finished is emitted and run returns.
RunEmpty ==
    /\ cpc = "start"
    /\ input_dir = 0
    /\ cpc' = "end"
    /\ finished_count' = finished_count + 1
    /\ UNCHANGED <<envVars, reported, setupVars, file_queue, queued,
                   active_workers, iter, c_file, c_q, events, connected,
                   unitVars, lastProgress, fatal_count, final_stats>>
    /\ UNCHANGED <<mainVars, stopVars, counterVars>>

\* Lines 116-155: enumerate, initialise the counters, fill the queue and
\* fix the number of iterations of the initial dispatch loop.
RunSetup ==
    /\ cpc = "start"
    /\ input_dir >= 1
    /\ total_files' = input_dir
    /\ processor_chain' = BuildChain(processor_chain, config)
    /\ ops' = ops
    /\ queued' = input_dir
    /\ processing' = 0
    /\ processed' = 0
    /\ failed' = 0
    /\ active_workers' = {}
    /\ file_queue' = FileList(input_dir)
    /\ wstate' = [f \in Files |-> IF f <= input_dir THEN "Queued" ELSE "Absent"]
    /\ iter' = InitialWorkers(input_dir)
    /\ cpc' = "dispatch"
    /\ UNCHANGED <<envVars, reported, c_file, c_q, events, connected,
                   lastProgress, finished_count, fatal_count, final_stats>>
    /\ UNCHANGED <<mainVars, stopVars>>

\* Lines 155-157 and 199-200: one iteration of the initial dispatch loop up
\* to the guard of _start_next_worker; the loop ends after `iter` rounds.
InitialDispatch ==
    /\ cpc = "dispatch"
    /\ IF iter = 0
         THEN cpc' = "loop" /\ iter' = iter
         ELSE /\ iter' = iter - 1
              /\ cpc' = IF MayDispatch(file_queue, stop_event)
                          THEN "snw_get" ELSE "dispatch"
    /\ UNCHANGED <<envVars, reported, setupVars, file_queue, queued,
                   active_workers, c_file, c_q, events, connected, unitVars,
                   lastProgress, finished_count, fatal_count, final_stats>>
    /\ UNCHANGED <<mainVars, stopVars, counterVars>>

\* Lines 202-203: file_queue.get() blocks while the queue is empty; the
\* current value of self.queued is read for the decrement.
CoordGet ==
    /\ cpc = "snw_get"
    /\ Len(file_queue) > 0
    /\ c_file' = Head(file_queue)
    /\ file_queue' = QueueAfterGet(file_queue)
    /\ c_q' = queued
    /\ cpc' = "snw_start"
    /\ UNCHANGED <<envVars, reported, setupVars, queued, active_workers, iter,
                   events, connected, unitVars, lastProgress, finished_count,
                   fatal_count, final_stats>>
    /\ UNCHANGED <<mainVars, stopVars, counterVars>>

\* Lines 203-215: self.queued is written, the worker is connected,
\* registered and started.
CoordStart ==
    /\ cpc = "snw_start"
    /\ StartWorker(c_file, c_q)
    /\ c_file' = 0
    /\ c_q' = 0
    /\ cpc' = "dispatch"
    /\ UNCHANGED <<envVars, setupVars, file_queue, iter, events, lastProgress,
                   finished_count, fatal_count, final_stats>>
    /\ UNCHANGED <<mainVars, stopVars, counterVars>>

\* Lines 160-174: one poll of the loop.  The loop is left when its
\* condition is false or stop_event is set; otherwise a statistics snapshot
\* and a progress value are emitted.
Poll ==
    /\ cpc = "loop"
    /\ IF LoopCondition(processing, file_queue) /\ ~stop_event
         THEN /\ lastProgress' = PollProgress(processed, failed, total_files)
              /\ reported' = TRUE
              /\ cpc' = "loop"
         ELSE /\ lastProgress' = lastProgress
              /\ reported' = reported
              /\ cpc' = "wait"
    /\ UNCHANGED <<envVars, setupVars, file_queue, queued, active_workers,
                   iter, c_file, c_q, events, connected, unitVars,
                   finished_count, fatal_count, final_stats>>
    /\ UNCHANGED <<mainVars, stopVars, counterVars>>

\* Line 177: thread_pool.waitForDone() returns when no started worker is
\* waiting for a pool thread or running.
WaitForDone ==
    /\ cpc = "wait"
    /\ InFlight = {}
    /\ cpc' = "final_progress"
    /\ UNCHANGED <<envVars, reported, setupVars, file_queue, queued,
                   active_workers, iter, c_file, c_q, events, connected,
                   unitVars, lastProgress, finished_count, fatal_count,
                   final_stats>>
    /\ UNCHANGED <<mainVars, stopVars, counterVars>>

\* Line 180: the final progress value.
FinalProgressEmit ==
    /\ cpc = "final_progress"
    /\ lastProgress' = FinalProgress(processed, failed, total_files)
    /\ cpc' = "final_stats"
    /\ UNCHANGED <<envVars, reported, setupVars, file_queue, queued,
                   active_workers, iter, c_file, c_q, events, connected,
                   unitVars, finished_count, fatal_count, final_stats>>
    /\ UNCHANGED <<mainVars, stopVars, counterVars>>

\* Lines 181-183: the final statistics snapshot (0, 0, processed, rate).
FinalStatsEmit ==
    /\ cpc = "final_stats"
    /\ final_stats' = TRUE
    /\ reported' = TRUE
    /\ cpc' = "final_finish"
    /\ UNCHANGED <<envVars, setupVars, file_queue, queued, active_workers,
                   iter, c_file, c_q, events, connected, unitVars,
                   lastProgress, finished_count, fatal_count>>
    /\ UNCHANGED <<mainVars, stopVars, counterVars>>

\* Lines 186-187: processing_finished unless stop_event is set.
Finish ==
    /\ cpc = "final_finish"
    /\ finished_count' = IF EmitsFinished(stop_event) THEN finished_count + 1
                                                      ELSE finished_count
    /\ cpc' = "end"
    /\ UNCHANGED <<envVars, reported, setupVars, file_queue, queued,
                   active_workers, iter, c_file, c_q, events, connected,
                   unitVars, lastProgress, fatal_count, final_stats>>
    /\ UNCHANGED <<mainVars, stopVars, counterVars>>

Coordinator ==
    \/ RunSetupFails
    \/ RunEmpty
    \/ RunSetup
    \/ InitialDispatch
    \/ CoordGet
    \/ CoordStart
    \/ Poll
    \/ WaitForDone
    \/ FinalProgressEmit
    \/ FinalStatsEmit
    \/ Finish

(***************************************************************************)
(* Pool threads: ImageWorker.run                                           *)
(***************************************************************************)

\* A signal emitted in a pool thread is posted to the main thread for every
\* slot still connected; a disconnected signal delivers nothing.
CanPost(f) == f \in connected => Len(events) < MaxPending

Post(kind, f) == IF f \in connected THEN Append(events, <<kind, f>>) ELSE events

Running == {f \in Files : wstate[f] = "Running"}

\* Line 59: a pool thread takes the worker and emits started.
WorkerBegin(f) ==
    /\ wstate[f] = "Pooled"
    /\ CanPost(f)
    /\ Cardinality(Running) < MaxThreadCount
    /\ wstate' = [wstate EXCEPT ![f] = "Running"]
    /\ ops' = ops
    /\ events' = Post("started", f)
    /\ UNCHANGED <<envVars, reported, cpc, setupVars, file_queue, queued,
                   active_workers, iter, c_file, c_q, connected, lastProgress,
                   finished_count, fatal_count, final_stats>>
    /\ UNCHANGED <<mainVars, stopVars, counterVars>>

\* Lines 62-74: open, process, save and close return; finished is emitted.
WorkerSucceed(f) ==
    /\ wstate[f] = "Running"
    /\ CanPost(f)
    /\ wstate' = [wstate EXCEPT ![f] = "Done"]
    /\ ops' = [ops EXCEPT ![f] =
                  UnitOfWork(SourcePath(f), config, WorkerChain(processor_chain))]
    /\ events' = Post("finished", f)
    /\ UNCHANGED <<envVars, reported, cpc, setupVars, file_queue, queued,
                   active_workers, iter, c_file, c_q, connected, lastProgress,
                   finished_count, fatal_count, final_stats>>
    /\ UNCHANGED <<mainVars, stopVars, counterVars>>

\* Lines 75-77: a step of the unit of work raises, the steps after it are
\* not executed; error is emitted with a message that names the file.
WorkerRaise(f) ==
    /\ wstate[f] = "Running"
    /\ CanPost(f)
    /\ Cardinality({g \in Files : wstate[g] = "Raised"}) < MaxRaise
    /\ wstate' = [wstate EXCEPT ![f] = "Raised"]
    /\ \E s \in fail_steps :
         ops' = [ops EXCEPT ![f] =
                   StepsBefore(SourcePath(f), s, config,
                               WorkerChain(processor_chain))]
    /\ events' = Post("error", f)
    /\ UNCHANGED <<envVars, reported, cpc, setupVars, file_queue, queued,
                   active_workers, iter, c_file, c_q, connected, lastProgress,
                   finished_count, fatal_count, final_stats>>
    /\ UNCHANGED <<mainVars, stopVars, counterVars>>

Worker ==
    \E f \in Files : WorkerBegin(f) \/ WorkerSucceed(f) \/ WorkerRaise(f)

(***************************************************************************)
(* The main thread: the slots and stop()                                   *)
(***************************************************************************)

\* The terminal transition a slot records for a file.
Record(f, outcome) ==
    [rec EXCEPT ![f] = IF rec[f] = "None" THEN outcome ELSE "Twice"]

\* Line 236 / 247 up to the guard of _start_next_worker (line 199).
NextAfterSlot == IF MayDispatch(file_queue, stop_event) THEN "snw_get" ELSE "idle"

\* Mutation of AfterStarted: the started signal is not counted.
AfterStartedUncounted(p) == p

\* self.processing += 1
AfterStarted(p) == p + 1

\* _on_worker_started, line 219.
OnWorkerStarted ==
    /\ mpc = "idle"
    /\ Len(events) > 0
    /\ Head(events)[1] = "started"
    /\ events' = Tail(events)
    /\ processing' = AfterStarted(processing)
    /\ UNCHANGED <<envVars, reported, cpc, setupVars, file_queue, queued,
                   processed, failed, active_workers, iter, c_file, c_q,
                   connected, unitVars, lastProgress, finished_count,
                   fatal_count, final_stats>>
    /\ UNCHANGED <<mainVars, stopVars>>

\* _on_worker_finished, lines 223-236.
OnWorkerFinished ==
    /\ mpc = "idle"
    /\ Len(events) > 0
    /\ Head(events)[1] = "finished"
    /\ LET f == Head(events)[2] IN
         /\ events' = Tail(events)
         /\ processing' = processing - 1
         /\ processed' = processed + 1
         /\ rec' = Record(f, "Completed")
         /\ reported' = FALSE
         /\ IF f \in active_workers
              THEN /\ connected' = connected \ {f}
                   /\ active_workers' = active_workers \ {f}
              ELSE UNCHANGED <<connected, active_workers>>
    /\ mpc' = NextAfterSlot
    /\ UNCHANGED <<envVars, cpc, setupVars, file_queue, queued, failed, iter,
                   c_file, c_q, unitVars, lastProgress, finished_count,
                   fatal_count, final_stats, m_file, m_q, err_events>>
    /\ UNCHANGED stopVars

\* _on_worker_error, lines 240-247.
OnWorkerError ==
    /\ mpc = "idle"
    /\ Len(events) > 0
    /\ Head(events)[1] = "error"
    /\ LET f == Head(events)[2] IN
         /\ events' = Tail(events)
         /\ processing' = processing - 1
         /\ failed' = failed + 1
         /\ rec' = Record(f, "Failed")
         /\ reported' = FALSE
         /\ err_events' = [err_events EXCEPT ![f] = @ + 1]
    /\ mpc' = NextAfterSlot
    /\ UNCHANGED <<envVars, cpc, setupVars, file_queue, queued, processed,
                   active_workers, iter, c_file, c_q, connected, unitVars,
                   lastProgress, finished_count, fatal_count, final_stats,
                   m_file, m_q>>
    /\ UNCHANGED stopVars

\* Lines 202-203 in a slot: the blocking get and the read of self.queued.
MainGet ==
    /\ mpc = "snw_get"
    /\ Len(file_queue) > 0
    /\ m_file' = Head(file_queue)
    /\ file_queue' = QueueAfterGet(file_queue)
    /\ m_q' = queued
    /\ mpc' = "snw_start"
    /\ UNCHANGED <<envVars, reported, cpc, setupVars, queued, active_workers,
                   iter, c_file, c_q, events, connected, unitVars,
                   lastProgress, finished_count, fatal_count, final_stats,
                   rec, err_events>>
    /\ UNCHANGED <<stopVars, counterVars>>

\* Lines 203-215 in a slot.
MainStart ==
    /\ mpc = "snw_start"
    /\ StartWorker(m_file, m_q)
    /\ m_file' = 0
    /\ m_q' = 0
    /\ mpc' = "idle"
    /\ UNCHANGED <<envVars, cpc, setupVars, file_queue, iter, c_file, c_q,
                   events, lastProgress, finished_count, fatal_count,
                   final_stats, rec, err_events>>
    /\ UNCHANGED <<stopVars, counterVars>>

\* stop(), lines 264-266, with _cleanup_workers, lines 252-260: the flag is
\* set, the signals of every registered worker are disconnected and the
\* registry is cleared.  A delivery already posted for a disconnected slot is
\* either still made or discarded.
Stop ==
    /\ mpc = "idle"
    /\ ~stop_event
    /\ stop_event' = TRUE
    /\ stop_at' = IF LoopNotLeft THEN "in_run" ELSE "after_loop"
    /\ connected' = connected \ active_workers
    /\ active_workers' = {}
    /\ \/ events' = events
       \/ events' = SelectSeq(events, LAMBDA e : e[2] \notin active_workers)
    /\ UNCHANGED <<envVars, reported, cpc, setupVars, file_queue, queued,
                   iter, c_file, c_q, unitVars, lastProgress, finished_count,
                   fatal_count, final_stats>>
    /\ UNCHANGED <<mainVars, counterVars>>

Slots ==
    \/ OnWorkerStarted
    \/ OnWorkerFinished
    \/ OnWorkerError
    \/ MainGet
    \/ MainStart

Next == Coordinator \/ Worker \/ Slots \/ Stop

\* Every run, cancelled or not, over at most MaxFiles files.
Spec == Init /\ [][Next]_vars

\* The runs the shell never cancels, over directories that fill the pool.
NextRun == Coordinator \/ Worker \/ Slots

PoolSpec == InitPool /\ [][NextRun]_vars

\* The runs the shell never cancels, over at most MaxFiles files.
RunSpec == Init /\ [][NextRun]_vars

\* Every run, cancelled or not, in which any step of a unit of work may
\* raise.
UnitSpec == InitUnit /\ [][Next]_vars

(***************************************************************************)
(* The shell's settings page stays usable during a run: its handlers run   *)
(* on the main thread, between two slots, and write the Config object the  *)
(* ProcessingThread and its workers hold a reference to (line 732).        *)
(***************************************************************************)

\* The state a settings handler leaves alone: everything but the
\* configuration.
ShellFrame ==
    /\ UNCHANGED <<input_dir, fail_steps, start_config, reported, coordVars,
                   processor_chain, file_queue, queued, active_workers,
                   events, connected, unitVars>>
    /\ UNCHANGED <<mainVars, stopVars, counterVars>>

\* on_quality_changed, lines 687-689: config.set_quality(value).
OnQualityChanged ==
    /\ mpc = "idle"
    /\ \E value \in Qualities \ {config.quality} :
         config' = [config EXCEPT !.quality = value]
    /\ ShellFrame

\* on_focal_changed, lines 680-685: the flag is enabled or disabled.
OnFocalChanged ==
    /\ mpc = "idle"
    /\ config' = [config EXCEPT !.focal = ~@]
    /\ ShellFrame

NextShell == NextRun \/ OnQualityChanged \/ OnFocalChanged

\* The runs the shell never cancels and during which it changes settings.
ShellSpec == InitShell /\ [][NextShell]_vars

\* The scheduling of the runs the shell never cancels: the coordinator
\* thread, the event loop of the main thread and every pool thread keep
\* taking the steps they can take, and a unit of work ends.
Fairness ==
    /\ WF_vars(Coordinator)
    /\ WF_vars(Slots)
    /\ \A f \in Files :
          /\ WF_vars(WorkerBegin(f))
          /\ WF_vars(WorkerSucceed(f) \/ WorkerRaise(f))

LiveSpec == Init /\ [][NextRun]_vars /\ Fairness

\* The runs the shell never cancels, under every configuration.
ChainSpec == InitChain /\ [][NextRun]_vars

(***************************************************************************)
(* What the coordinator emits.  A signal of run() carries the values the   *)
(* counters have in the state the emitting step is taken in.               *)
(***************************************************************************)

\* The poll of lines 165-171 emits in this state.
PollEmits ==
    cpc = "loop" /\ LoopCondition(processing, file_queue) /\ ~stop_event

\* Line 167: the snapshot a poll emits.
PollSnapshot == Snapshot(queued, processing, processed)

\* Line 183: the final snapshot.
FinalSnapshot == Snapshot(0, 0, processed)

\* The files of the run.
RunFiles == 1..total_files

\* Every file of the run is Completed or Failed: its worker has ended and a
\* slot has recorded the transition.
AllTerminal ==
    \A f \in RunFiles : wstate[f] \in {"Done", "Raised"} /\ rec[f] # "None"

\* run() has returned, every worker has ended and the main thread has made
\* every delivery posted to it: nothing will change any more.
Settled ==
    /\ cpc = "end"
    /\ InFlight = {}
    /\ events = <<>>
    /\ mpc = "idle"

(***************************************************************************)
(* C1: at every statistics snapshot emitted by run() (each poll and the    *)
(* final one), queued + in-flight + completed + failed is the number of    *)
(* files enumerated at run start.                                          *)
(***************************************************************************)
C1_SnapshotSumsToTotal ==
    /\ PollEmits =>
         PollSnapshot.queued + PollSnapshot.processing
           + PollSnapshot.processed + failed = total_files
    /\ cpc = "final_stats" =>
         FinalSnapshot.queued + FinalSnapshot.processing
           + FinalSnapshot.processed + failed = total_files

(***************************************************************************)
(* C2: the files dispatched and not yet at the end of their unit of work   *)
(* never number more than the concurrency bound, counting a file a         *)
(* dispatcher has taken from the queue and is about to start.              *)
(***************************************************************************)
Taken ==
    (IF cpc = "snw_start" THEN {c_file} ELSE {})
      \cup (IF mpc = "snw_start" THEN {m_file} ELSE {})

C2_InFlightBounded == Cardinality(InFlight \cup Taken) <= MaxThreadCount

\* The pool is full again after a worker has ended: a slot has started the
\* file the initial dispatch loop left in the queue.
C2_Witness ==
    /\ Cardinality(InFlight) = MaxThreadCount
    /\ Terminal # {}

(***************************************************************************)
(* C3: the progress values emitted during one run never decrease.          *)
(***************************************************************************)
C3_ProgressNonDecreasing == [][lastProgress' >= lastProgress]_vars

(***************************************************************************)
(* C4: when a run that was never cancelled, over at least one file, has    *)
(* ended with every file's unit of work ended, the last progress value it  *)
(* emitted is 100.                                                         *)
(***************************************************************************)
C4_UncancelledRunEndsAt100 ==
    (/\ cpc = "end"
     /\ ~stop_event
     /\ total_files >= 1
     /\ \A f \in RunFiles : wstate[f] \in {"Done", "Raised"})
      => lastProgress = 100

(***************************************************************************)
(* C5: a progress value of 100 has been emitted only if every file of the  *)
(* run is Completed or Failed or the run is cancelled; an uncancelled run  *)
(* with a queued or in-flight file has never emitted 100.                  *)
(***************************************************************************)
C5_HundredOnlyWhenAllTerminal ==
    lastProgress = 100 => (AllTerminal \/ stop_event)

\* 100 was emitted by a run over several files, one of which failed.
C5_Witness ==
    /\ lastProgress = 100
    /\ total_files >= 2
    /\ failed >= 1
    /\ processed >= 1

(***************************************************************************)
(* C6: once stop() has set the flag and no dispatcher is past the guard of *)
(* _start_next_worker, no file leaves the queue and no worker is started,  *)
(* by the initial dispatch loop or by a slot; a worker already started is  *)
(* never taken back, and a run cancelled before it left its loop returns   *)
(* only when every started worker has ended.                               *)
(***************************************************************************)
CancelObserved ==
    /\ stop_event
    /\ cpc \notin {"snw_get", "snw_start"}
    /\ mpc \notin {"snw_get", "snw_start"}

WorkerRunsOn(f) ==
    /\ wstate[f] = "Pooled" => wstate'[f] \in {"Pooled", "Running"}
    /\ wstate[f] = "Running" => wstate'[f] \in {"Running", "Done", "Raised"}

C6_NoDispatchAfterCancel ==
    /\ [][CancelObserved =>
            /\ CancelObserved'
            /\ Len(file_queue') >= Len(file_queue)
            /\ \A f \in Files : wstate[f] = "Queued" => wstate'[f] = "Queued"]_vars
    /\ [][\A f \in Files : WorkerRunsOn(f)]_vars
    /\ []((stop_at = "in_run" /\ cpc = "end") => InFlight = {})

\* A cancelled run has returned with a file still queued after the workers
\* it had started ran to their end.
C6_Witness ==
    /\ stop_at = "in_run"
    /\ cpc = "end"
    /\ Len(file_queue) > 0
    /\ Terminal # {}

(***************************************************************************)
(* C7: when a run is cancelled mid-run, every file that was in flight at   *)
(* the cancellation is recorded as Completed or Failed, and the final      *)
(* counters account for every dispatched file.  Stated of the settled      *)
(* state, where every delivery that will ever be made has been made.       *)
(***************************************************************************)
C7_CancelledRunRecordsInFlight ==
    (Settled /\ stop_at = "in_run") =>
        /\ \A f \in Dispatched : rec[f] # "None"
        /\ processed + failed = Cardinality(Dispatched)

(***************************************************************************)
(* C8: a run over at least one file that is cancelled before the polling   *)
(* loop is left never emits processing_finished, and has emitted the final *)
(* statistics snapshot when it returns.                                    *)
(***************************************************************************)
C8_CancelledRunNotFinished ==
    (stop_at = "in_run" /\ input_dir >= 1) =>
        /\ finished_count = 0
        /\ cpc = "end" => final_stats

\* A cancelled run over files has returned.
C8_Witness ==
    /\ stop_at = "in_run"
    /\ input_dir >= 1
    /\ cpc = "end"
    /\ final_stats
    /\ Dispatched # {}

(***************************************************************************)
(* C9: every run ends with exactly one terminal event.  ProcessingThread   *)
(* declares processing_finished and error_occurred and no signal for a     *)
(* stopped run, so the terminal events of a run are these two.             *)
(***************************************************************************)
TerminalEvents == finished_count + fatal_count

C9_ExactlyOneTerminalEvent == cpc = "end" => TerminalEvents = 1

(***************************************************************************)
(* C10: in the settled state of a run, every file whose unit of work       *)
(* raised is recorded Failed exactly once with exactly one error event     *)
(* naming it, failed counts exactly those files, and every other file has  *)
(* the outcome of its own unit of work: a file that was dispatched and     *)
(* succeeded is Completed, and in a run that was not cancelled no file is  *)
(* left queued.                                                            *)
(***************************************************************************)
Raised == {f \in RunFiles : wstate[f] = "Raised"}

OwnOutcome(g) ==
    /\ wstate[g] = "Done" => (rec[g] = "Completed" /\ err_events[g] = 0)
    /\ ~stop_event => wstate[g] # "Queued"

C10_FailureIsLocal ==
    Settled =>
        \A f \in Raised :
            /\ rec[f] = "Failed"
            /\ err_events[f] = 1
            /\ failed = Cardinality(Raised)
            /\ \A g \in RunFiles \ {f} : OwnOutcome(g)

(***************************************************************************)
(* C11: for every combination of the three flags and every layout type     *)
(* (registered, 'square', unregistered, empty or absent), the chain run()  *)
(* builds is the four-step sequence: Shadow if shadow is enabled and the   *)
(* layout is not square; the layout's component, or Simple when the layout *)
(* has no match; Margin if white margin is enabled and the layout contains *)
(* 'watermark'; PaddingToOriginalRatio if padding is enabled and the       *)
(* layout is not square.                                                   *)
(***************************************************************************)
FourStepChain(cfg) ==
    LET l == cfg.layout IN
      (IF cfg.shadow /\ l # <<"square">> THEN <<"SHADOW_PROCESSOR">> ELSE <<>>)
      \o (IF l \in DOMAIN layout_items_dict
            THEN <<layout_items_dict[l]>> ELSE <<"SIMPLE_PROCESSOR">>)
      \o (IF cfg.margin /\ Contains(l, "watermark")
            THEN <<"MARGIN_PROCESSOR">> ELSE <<>>)
      \o (IF cfg.padding /\ l # <<"square">>
            THEN <<"PADDING_TO_ORIGINAL_RATIO_PROCESSOR">> ELSE <<>>)

ChainBuilt == cpc \notin {"start"} /\ total_files > 0

C11_ChainIsFourStep ==
    ChainBuilt => processor_chain = FourStepChain(config)

(***************************************************************************)
(* C12: in a run that is not cancelled and in which no unit of work        *)
(* raises, the final statistics snapshot reports every file completed and  *)
(* none failed, and the final progress value is 100.                       *)
(***************************************************************************)
C12_CleanRunEndsComplete ==
    (~stop_event /\ total_files > 0 /\ Raised = {}) =>
        /\ cpc = "final_stats" =>
              FinalSnapshot.processed = total_files /\ failed = 0
        /\ cpc \in {"final_stats", "final_finish", "end"} =>
              lastProgress = 100

(***************************************************************************)
(* C13: each file follows Queued -> InFlight -> {Completed | Failed}: it   *)
(* is taken from the queue and dispatched at most once, is never           *)
(* dispatched again after its worker has ended, reaches at most one        *)
(* terminal state and never leaves it.                                     *)
(***************************************************************************)
FileTransitions ==
    {<<"Absent", "Queued">>, <<"Queued", "Pooled">>, <<"Pooled", "Running">>,
     <<"Running", "Done">>, <<"Running", "Raised">>}

\* The files in the queue are distinct and none of them has been taken or
\* dispatched; a file a dispatcher holds is held by that dispatcher alone.
QueueHoldsUndispatched ==
    /\ \A i, j \in 1..Len(file_queue) :
          file_queue[i] = file_queue[j] => i = j
    /\ \A i \in 1..Len(file_queue) :
          wstate[file_queue[i]] = "Queued" /\ file_queue[i] \notin Taken
    /\ \A f \in Taken : wstate[f] = "Queued"
    /\ (cpc = "snw_start" /\ mpc = "snw_start") => c_file # m_file

RecordedOnce ==
    \A f \in Files :
        /\ rec[f] \in {"None", "Completed", "Failed"}
        /\ rec[f] = "Completed" => wstate[f] = "Done"
        /\ rec[f] = "Failed" => wstate[f] = "Raised"

C13_FileStateMachine ==
    /\ [][\A f \in Files :
            /\ wstate'[f] # wstate[f] =>
                  <<wstate[f], wstate'[f]>> \in FileTransitions
            /\ rec'[f] # rec[f] => rec[f] = "None"]_vars
    /\ [](QueueHoldsUndispatched /\ RecordedOnce)

\* One file of the run is Completed, another is Failed, a third is in flight.
C13_Witness ==
    /\ \E f \in RunFiles : rec[f] = "Completed"
    /\ \E f \in RunFiles : rec[f] = "Failed"
    /\ \E f \in RunFiles : wstate[f] = "Running"

(***************************************************************************)
(* C14: when a slot handles a completion or a failure while the run is not *)
(* cancelled and a file is still queued, that slot goes on to dispatch a   *)
(* queued file: it reaches the get, the get finds a file, the file is      *)
(* started; and once the initial dispatch is over, while files remain      *)
(* queued and the main thread is between slots, the files dispatched and   *)
(* not yet recorded as terminal number the concurrency bound.              *)
(***************************************************************************)
Unrecorded == {f \in Dispatched \cup Taken : rec[f] = "None"}

\* A step of _on_worker_finished or _on_worker_error.
HandlesTerminal == processed' # processed \/ failed' # failed

HandlerCommits ==
    (HandlesTerminal /\ ~stop_event /\ Len(file_queue) > 0) =>
        mpc' = "snw_get"

HandlerStarts ==
    /\ (mpc = "snw_get" /\ mpc' # mpc) =>
          mpc' = "snw_start" /\ m_file' = Head(file_queue)
    /\ (mpc = "snw_start" /\ mpc' # mpc) => wstate'[m_file] = "Pooled"

\* The get of a slot never finds the queue empty.
HandlerFindsFile == mpc = "snw_get" => Len(file_queue) > 0

PoolRefilled ==
    (/\ ~stop_event
     /\ Len(file_queue) > 0
     /\ mpc = "idle"
     /\ cpc \notin {"start", "dispatch", "snw_get", "snw_start"})
      => Cardinality(Unrecorded) = MaxThreadCount

C14_DispatchInHandler ==
    /\ [][HandlerCommits /\ HandlerStarts]_vars
    /\ [](HandlerFindsFile /\ PoolRefilled)

(***************************************************************************)
(* C15: a statistics snapshot is emitted after every transition of a file  *)
(* (each dispatch, each completion, each failure) before the next          *)
(* transition, and one more is emitted at the end of the run.              *)
(***************************************************************************)

\* A step that dispatches a file or records a completion or a failure.
FileTransition ==
    \/ \E f \in Files : wstate[f] = "Queued" /\ wstate'[f] = "Pooled"
    \/ rec' # rec

C15_SnapshotAfterEveryTransition ==
    /\ [][FileTransition => reported]_vars
    /\ []((total_files > 0 /\ cpc = "end") => final_stats)
    /\ []((total_files > 0 /\ Settled) => reported)

(***************************************************************************)
(* C16: if get_file_list raises, the run emits exactly one run-level error *)
(* event, dispatches no file, records no per-file failure and does not     *)
(* emit processing_finished.                                               *)
(***************************************************************************)
C16_EnumerationFailure ==
    input_dir = Unreadable =>
        /\ fatal_count <= 1
        /\ cpc = "end" => fatal_count = 1
        /\ finished_count = 0
        /\ failed = 0
        /\ Taken = {}
        /\ \A f \in Files :
              /\ wstate[f] = "Absent"
              /\ rec[f] = "None"
              /\ err_events[f] = 0

\* run() has returned from the except clause.
C16_Witness == input_dir = Unreadable /\ cpc = "end" /\ fatal_count = 1

(***************************************************************************)
(* C17: a worker performs open, chain.process, save, close in that order;  *)
(* save is performed only after chain.process has returned, so a file      *)
(* whose open or chain processing raises has no save; finished is emitted  *)
(* only after save and close have both returned.                           *)
(***************************************************************************)
StepOrder == <<"open", "process", "save", "close">>

\* The names of the steps that returned for file f, in order.
StepsDone(f) == [i \in 1..Len(ops[f]) |-> ops[f][i][1]]

Did(f, step) == \E i \in 1..Len(ops[f]) : ops[f][i][1] = step

IsPrefix(a, b) ==
    Len(a) <= Len(b) /\ \A i \in 1..Len(a) : a[i] = b[i]

\* The finished signal of file f has been emitted: it is posted, or the slot
\* has recorded it.
FinishedEmitted(f) ==
    \/ \E i \in 1..Len(events) : events[i] = <<"finished", f>>
    \/ rec[f] = "Completed"

C17_UnitOfWorkOrder ==
    \A f \in Files :
        /\ IsPrefix(StepsDone(f), StepOrder)
        /\ Did(f, "save") => Did(f, "process")
        /\ (wstate[f] = "Raised" /\ ~Did(f, "process")) => ~Did(f, "save")
        /\ FinishedEmitted(f) => (Did(f, "save") /\ Did(f, "close"))

\* The chain raised for one file, which has no save, and another file was
\* saved, closed and then reported finished.
C17_Witness ==
    /\ \E f \in RunFiles :
          wstate[f] = "Raised" /\ StepsDone(f) = <<"open">>
    /\ \E f \in RunFiles : FinishedEmitted(f) /\ StepsDone(f) = StepOrder

(***************************************************************************)
(* C18: for every file that reaches Completed exactly one save was         *)
(* performed, and its target is the output directory joined with the base  *)
(* name of the source file; no save of the run targets any other path.     *)
(***************************************************************************)
Saves(f) == {i \in 1..Len(ops[f]) : ops[f][i][1] = "save"}

\* `target` is the file named like the source of f, directly in the output
\* directory.
InOutputDirAs(target, f) ==
    /\ Len(target) = 2
    /\ target[1] = "output_dir"
    /\ target[2] = SourcePath(f)[Len(SourcePath(f))]

C18_SavedUnderSourceName ==
    \A f \in Files :
        /\ rec[f] = "Completed" => Cardinality(Saves(f)) = 1
        /\ \A i \in Saves(f) : InOutputDirAs(ops[f][i][2], f)

\* Two files are Completed, each saved once.
C18_Witness ==
    \E f, g \in RunFiles :
        /\ f # g
        /\ rec[f] = "Completed" /\ Cardinality(Saves(f)) = 1
        /\ rec[g] = "Completed" /\ Cardinality(Saves(g)) = 1

(***************************************************************************)
(* C19: the counter updates and the queue removals act as if made under a  *)
(* single lock: no update of a counter is lost (after k dispatches queued  *)
(* is total - k; completed and failed count the recorded files) and no two *)
(* dispatchers pass the emptiness check for the same queued file.          *)
(***************************************************************************)
RecordedAs(outcome) == {f \in Files : rec[f] = outcome}

C19_SingleSynchronisation ==
    ChainBuilt =>
        /\ Taken = {} => queued = total_files - Cardinality(Dispatched)
        /\ processed = Cardinality(RecordedAs("Completed"))
        /\ failed = Cardinality(RecordedAs("Failed"))
        /\ (cpc = "snw_get" /\ mpc = "snw_get") => Len(file_queue) >= 2

(***************************************************************************)
(* C20: every image container a worker has opened is closed by the time    *)
(* its file is terminal, whether the unit of work returned or raised after *)
(* the open.                                                               *)
(***************************************************************************)
C20_OpenedIsClosed ==
    \A f \in Terminal : Did(f, "open") => Did(f, "close")

(***************************************************************************)
(* C21: every file of a run is processed with the configuration values     *)
(* that held when the run started: whatever the shell sets the quality or  *)
(* the equivalent-focal-length flag to during the run, each processing     *)
(* step and each save of the run uses the values of the start.             *)
(***************************************************************************)
C21_RunUsesStartConfig ==
    \A f \in Files :
        \A i \in 1..Len(ops[f]) :
            /\ ops[f][i][1] = "process" => ops[f][i][3] = start_config.focal
            /\ ops[f][i][1] = "save" => ops[f][i][3] = start_config.quality

(***************************************************************************)
(* C22: the chain of a run is built completely before the first file is    *)
(* dispatched and is not modified afterwards: no component is added once a *)
(* worker has been started, and every worker runs the same chain.          *)
(***************************************************************************)
SomeFileDispatched == Dispatched \cup Taken # {}

C22_ChainFixedBeforeDispatch ==
    /\ [][processor_chain' # processor_chain =>
            (~SomeFileDispatched /\ ~SomeFileDispatched')]_vars
    /\ [](SomeFileDispatched =>
            processor_chain = BuildChain(<<>>, start_config))
    /\ [](\A f \in Files :
            \A i \in 1..Len(ops[f]) :
                ops[f][i][1] = "process" => ops[f][i][4] = processor_chain)

\* Two workers have run a chain of several components.
C22_Witness ==
    /\ Len(processor_chain) >= 2
    /\ \E f, g \in RunFiles :
          f # g /\ Did(f, "process") /\ Did(g, "process")

(***************************************************************************)
(* C23: in a run that is never cancelled, where every unit of work ends    *)
(* and every pending signal is handled, run() eventually returns with      *)
(* every file dispatched and processing_finished emitted; no interleaving  *)
(* of the initial dispatch loop with a slot's dispatch leaves a thread     *)
(* blocked for ever in the get of the emptied queue.                       *)
(***************************************************************************)
RunReturned ==
    /\ cpc = "end"
    /\ finished_count = 1
    /\ \A f \in 1..input_dir : f \in Dispatched

C23_RunTerminates == (input_dir # Unreadable) => <>RunReturned

(***************************************************************************)
(* C24: in every state of a run the keys of active_workers are exactly the *)
(* files that have been dispatched and whose terminal event (finished or   *)
(* error) no slot has handled yet; a file whose failure has been handled   *)
(* is not in active_workers.                                               *)
(***************************************************************************)
C24_ActiveWorkersAreUnhandled ==
    active_workers = {f \in Dispatched : rec[f] = "None"}

(***************************************************************************)
(* C25: the in-flight counter is never negative and never above the        *)
(* concurrency bound: the handling of a worker's finished or error signal  *)
(* comes after the handling of the same worker's started signal, in every  *)
(* interleaving of up to MaxThreadCount concurrent workers.                *)
(***************************************************************************)
Pending(kind, f) == \E i \in 1..Len(events) : events[i] = <<kind, f>>

\* The started signal of f has been emitted and handled.
StartedHandled(f) ==
    wstate[f] \in {"Running", "Done", "Raised"} /\ ~Pending("started", f)

C25_ProcessingInRange ==
    /\ processing >= 0
    /\ processing <= MaxThreadCount
    /\ \A f \in Files : rec[f] # "None" => StartedHandled(f)
    /\ \A i, j \in 1..Len(events) :
          (events[i][1] = "started" /\ events[j][2] = events[i][2] /\ i # j)
            => i < j
    /\ processing = Cardinality({f \in Files :
                                   StartedHandled(f) /\ rec[f] = "None"})

\* The counter is at the bound and a terminal event has been handled.
C25_Witness ==
    /\ processing = MaxThreadCount
    /\ \E f \in Files : rec[f] # "None"

(***************************************************************************)
(* C26: when the enumerated file list is empty, run() emits                *)
(* processing_finished exactly once and returns: it adds no component to   *)
(* the chain, dispatches no worker and emits no progress value and no      *)
(* statistics snapshot.                                                    *)
(***************************************************************************)
C26_EmptyRun ==
    input_dir = 0 =>
        /\ finished_count <= 1
        /\ cpc = "end" => finished_count = 1
        /\ cpc \in {"start", "end"}
        /\ fatal_count = 0
        /\ processor_chain = <<>>
        /\ lastProgress = 0 - 1
        /\ ~final_stats
        /\ Taken = {}
        /\ \A f \in Files : wstate[f] = "Absent" /\ ops[f] = <<>>

\* run() has returned from line 121.
C26_Witness == input_dir = 0 /\ cpc = "end" /\ finished_count = 1

====
